---- MODULE Spec2Model ----
(***************************************************************************)
(* rot8: the orientation decision engine and the application protocol of   *)
(* src/main.rs.  The process is one thread: startup (backend detection,    *)
(* argument parsing, the query of the current rotation, the keyboard set)  *)
(* followed by an endless poll loop.  One action models startup, one       *)
(* action models one whole loop iteration, and one action is the           *)
(* environment attaching or detaching an input device.                     *)
(*                                                                         *)
(* Numbers.  The normalized vector is an f32 pair.  Every input of the     *)
(* model keeps the f32 arithmetic exact: raw counts are small integers,    *)
(* the scale is 5 or 10 (x * scale / 10 is then a multiple of 1/2), and    *)
(* thresholds are multiples of 1/4.  Vector components are therefore held  *)
(* in halves and squared distances and thresholds in quarters.             *)
(***************************************************************************)
EXTENDS Integers, Sequences, FiniteSets, TLC

VARIABLES
    \* ---- the environment read by the program
    procs,           \* names of the running processes seen by pidof
    matches,         \* the parsed command line (clap matches)
    sway_outputs,    \* what `swaymsg -t get_outputs --raw` reports
    xrandr_output,   \* the lines `xrandr` prints
    sway_inputs,     \* what `swaymsg -t get_inputs --raw` reports
    scale_file,      \* the in_accel_scale file
    xinput_devices,  \* ids for which `xinput list <id>` succeeds
    \* ---- the program
    pc,              \* "start", "loop", "error" (main returned Err), "panic"
    backend,
    keyboard_mode,
    keyboards,
    scale,
    old_state,
    current_orient,  \* index into orientations
    \* ---- the backend and the record of the latest iteration
    display_state,   \* rotation the display really has, in the backend's words
    last_applied,    \* label of the latest rotate command, else the startup report
    ran,             \* TRUE once an iteration has completed
    prev_state,      \* old_state when the latest iteration began
    prev_orient,     \* current_orient when the latest iteration began
    matched,         \* whether a reference qualified in the latest iteration
    attached,        \* the results of the attachment probes of the latest iteration
    issued,          \* the commands the latest iteration issued, in order
    \* ---- the classifier taken alone
    sample,          \* the inputs of one classification
    classified,      \* its result, 0 before it has run
    \* ---- the apply block taken alone
    apply_pc,        \* "idle", "spawn", "wait", "record", "done"
    children,        \* the child processes spawned so far: argv and status
    \* ---- the loop observed round by round
    tick             \* parity of the number of completed rounds

vars == <<procs, matches, sway_outputs, xrandr_output, sway_inputs, scale_file,
          xinput_devices, pc, backend, keyboard_mode, keyboards, scale,
          old_state, current_orient, display_state, last_applied, ran,
          prev_state, prev_orient, matched, attached, issued, sample, classified,
          apply_pc, children, tick>>

env_vars == <<procs, matches, sway_outputs, xrandr_output, sway_inputs, scale_file>>

(***************************************************************************)
(* Bounds                                                                  *)
(***************************************************************************)
MaxRaw == 1          \* raw counts the loop reads range over -MaxRaw..MaxRaw
MaxSampleRaw == 2    \* raw counts given to the classifier alone
MaxThreshold == 9    \* thresholds, in quarters, range over -1..MaxThreshold

None == <<>>
Some(v) == <<v>>

(***************************************************************************)
(* The static orientation table.                                           *)
(***************************************************************************)
orientations ==
    << [vector |-> <<0, -1>>, new_state |-> "normal", x_state |-> "normal",
        matrix |-> <<"1", "0", "0", "0", "1", "0", "0", "0", "1">>],
       [vector |-> <<0, 1>>, new_state |-> "180", x_state |-> "inverted",
        matrix |-> <<"-1", "0", "1", "0", "-1", "1", "0", "0", "1">>],
       [vector |-> <<-1, 0>>, new_state |-> "90", x_state |-> "right",
        matrix |-> <<"0", "1", "0", "-1", "0", "1", "0", "0", "1">>],
       [vector |-> <<1, 0>>, new_state |-> "270", x_state |-> "left",
        matrix |-> <<"0", "-1", "1", "1", "0", "0", "0", "0", "1">>] >>

NumOrientations == Len(orientations)

\* let mut current_orient: &Orientation = &orientations[0];
InitialOrient == 1

(***************************************************************************)
(* Backend detection: pidof sway, then pidof Xorg.                         *)
(***************************************************************************)
DetectBackend(running) ==
    IF "sway" \in running THEN "Sway"
    ELSE IF "Xorg" \in running THEN "Xorg"
    ELSE "none"

(***************************************************************************)
(* get_keyboards: on Sway the identifiers of the inputs of type keyboard,  *)
(* in report order; serde_json's Value::to_string renders a JSON string    *)
(* with its quotes.  On Xorg the empty vector.                             *)
(***************************************************************************)
JsonToString(s) == "\"" \o s \o "\""

RECURSIVE KeyboardInputs(_)
KeyboardInputs(inputs) ==
    IF inputs = <<>> THEN <<>>
    ELSE IF Head(inputs).type = "keyboard"
         THEN <<JsonToString(Head(inputs).identifier)>> \o KeyboardInputs(Tail(inputs))
         ELSE KeyboardInputs(Tail(inputs))

get_keyboards(be, inputs) ==
    IF be = "Sway" THEN KeyboardInputs(inputs) ELSE <<>>

(***************************************************************************)
(* keyboards_attached: the Sway arm is a stub; the Xorg arm runs           *)
(* `xinput list <keyboard>` for each keyboard in order and stops at the    *)
(* first success.                                                          *)
(***************************************************************************)
RECURSIVE AnyResponds(_, _)
AnyResponds(kbds, devices) ==
    IF kbds = <<>> THEN FALSE
    ELSE IF Head(kbds) \in devices THEN TRUE
    ELSE AnyResponds(Tail(kbds), devices)

\* A probe whose Sway arm asks the devices as the Xorg arm does.
keyboards_attached_no_stub(be, kbds, devices) == AnyResponds(kbds, devices)

keyboards_attached(be, kbds, devices) ==
    IF be = "Sway" THEN FALSE ELSE AnyResponds(kbds, devices)

(***************************************************************************)
(* get_window_server_rotation_state.                                       *)
(*                                                                         *)
(* Sway: the transform of the first output whose name is the display.      *)
(*                                                                         *)
(* Xorg: a line of the xrandr report is held as its fields                 *)
(*   name, status, mid (the space-separated words between the status and   *)
(*   the literal "(normal left inverted right x axis y axis)"), tail       *)
(*   (whether text follows the literal).                                   *)
(* The pattern  ^<display> connected .+? .+? (normal |inverted |left       *)
(* |right )?\(normal left ... y axis\) .+$  needs at least two words in    *)
(* mid for its two lazy `.+? ` parts; the optional group then takes the    *)
(* last word when a third or later word is a rotation word, and the        *)
(* capture keeps the trailing blank of the group.                          *)
(***************************************************************************)
Ok(v) == [ok |-> TRUE, val |-> v]
Err == [ok |-> FALSE, val |-> ""]

XrandrWords == {"normal", "inverted", "left", "right"}

RECURSIVE SwayTransformOf(_, _)
SwayTransformOf(display, outputs) ==
    IF outputs = <<>> THEN Err
    ELSE IF Head(outputs).name = display THEN Ok(Head(outputs).transform)
    ELSE SwayTransformOf(display, Tail(outputs))

xrandr_is_match(display, line) ==
    /\ line.name = display
    /\ line.status = "connected"
    /\ Len(line.mid) >= 2
    /\ line.tail

xrandr_capture(line) ==
    LET n == Len(line.mid) IN
    IF n >= 3 /\ line.mid[n] \in XrandrWords
    THEN Ok(line.mid[n] \o " ")
    ELSE Ok("normal")

RECURSIVE XrandrRotationOf(_, _)
XrandrRotationOf(display, lines) ==
    IF lines = <<>> THEN Err
    ELSE IF ~xrandr_is_match(display, Head(lines))
         THEN XrandrRotationOf(display, Tail(lines))
         ELSE xrandr_capture(Head(lines))

get_window_server_rotation_state(display, be, outputs, lines) ==
    IF be = "Sway" THEN SwayTransformOf(display, outputs)
    ELSE XrandrRotationOf(display, lines)

(***************************************************************************)
(* get_scale: the first in_accel_scale file, parsed as f32; None when the  *)
(* file is absent, unreadable or unparsable.                               *)
(***************************************************************************)
get_scale(file) ==
    IF file.present /\ file.parses THEN Some(file.val) ELSE None

(***************************************************************************)
(* The poll loop's pure steps.                                             *)
(***************************************************************************)
\* x_raw.trim_end_matches('\n').parse::<i32>().unwrap_or(0)
parse_i32(file) == IF file.parses THEN file.val ELSE 0

\* threshold.parse::<f32>().unwrap_or(0.5), in quarters
DefaultThreshold == 2
parse_threshold(arg) == IF arg.parses THEN arg.val ELSE DefaultThreshold

human_normal(rotate_90) == IF rotate_90 THEN "90" ELSE "normal"

\* if flip_y { y_clean = -y_clean; }
FlipY(flip_y, y_clean) == IF flip_y THEN -y_clean ELSE y_clean

\* Some(scale) => (x_clean * scale / 10, y_clean * scale / 10); None => as read.
\* The result is in halves.
Normalize(x_clean, y_clean, sc) ==
    IF sc = None THEN <<2 * x_clean, 2 * y_clean>>
    ELSE <<(2 * x_clean * sc[1]) \div 10, (2 * y_clean * sc[1]) \div 10>>

\* A rotation by 90 degrees the other way round.
Rotate90_ccw(rotate_90, v) == IF rotate_90 THEN <<-v[2], v[1]>> ELSE v

\* let mx = -x; x = y; y = mx;
Rotate90(rotate_90, v) == IF rotate_90 THEN <<v[2], -v[1]>> ELSE v

NormalizedVector(x_clean, y_clean, sc, flip_y, rotate_90) ==
    Rotate90(rotate_90, Normalize(x_clean, FlipY(flip_y, y_clean), sc))

\* (x - orient.vector.0).powf(2.0) + (y - orient.vector.1).powf(2.0), in quarters
Distance(v, orient) ==
    LET dx == v[1] - 2 * orient.vector[1]
        dy == v[2] - 2 * orient.vector[2]
    IN dx * dx + dy * dy

\* A test that lets a distance equal to the threshold qualify.
Qualifies_le(d, thr) == d <= thr

\* if d < threshold
Qualifies(d, thr) == d < thr

\* for orient in orientations.iter() { if d < threshold { current_orient = orient; break } }
RECURSIVE ClassifyFrom(_, _, _, _)
ClassifyFrom(i, v, thr, cur) ==
    IF i > NumOrientations THEN cur
    ELSE IF Qualifies(Distance(v, orientations[i]), thr) THEN i
    ELSE ClassifyFrom(i + 1, v, thr, cur)

Classify(v, thr, cur) == ClassifyFrom(1, v, thr, cur)

\* whether the loop reached its `break`
AnyQualifies(v, thr) ==
    \E i \in 1..NumOrientations : Qualifies(Distance(v, orientations[i]), thr)

\* A loop that runs the body of `if new_state != old_state` on every iteration.
StateChanged_always(new_state, old) == TRUE

\* if new_state != old_state
StateChanged(new_state, old) == new_state # old

\* A keyboard state computed against "normal" whatever the rotate-90 hack says.
integrated_keyboard_state_normal(new_state, hn) ==
    IF new_state = "normal" THEN "enabled" ELSE "disabled"

integrated_keyboard_state(new_state, hn) ==
    IF new_state = hn THEN "enabled" ELSE "disabled"

\* A lock that tests the candidate the wrong way round.
noop_inverted(mode, is_attached, old, new_state, hn) ==
    mode = "Detachable" /\ is_attached /\ new_state = hn

\* A lock that only holds the display at human_normal.
noop_old_only(mode, is_attached, old, new_state, hn) ==
    mode = "Detachable" /\ is_attached /\ old = hn

\* let noop = if let KeyboardMode::Detachable = keyboard_mode { attached && (..) } else { false }
noop(mode, is_attached, old, new_state, hn) ==
    IF mode = "Detachable"
    THEN is_attached /\ (old = hn \/ new_state # hn)
    ELSE FALSE

(***************************************************************************)
(* The commands of one applied rotation, each as its argument vector.      *)
(***************************************************************************)
SwayRotate(display, new_state) ==
    <<"swaymsg", "output", display, "transform", new_state>>

SwayKeyboard(keyboard, token) ==
    <<"swaymsg", "input", keyboard, "events", token>>

XrandrRotate(display, x_state) ==
    <<"xrandr", "--output", display, "--rotate", x_state>>

XinputMatrix(touchscreen, matrix) ==
    <<"xinput", "set-prop", touchscreen, "Coordinate Transformation Matrix">> \o matrix

HookCommand(hook) == <<"/bin/sh", "-c", hook>>

RECURSIVE KeyboardCommands(_, _)
KeyboardCommands(kbds, token) ==
    IF kbds = <<>> THEN <<>>
    ELSE <<SwayKeyboard(Head(kbds), token)>> \o KeyboardCommands(Tail(kbds), token)

\* An Xorg arm that hands xrandr the Sway transform label.
BackendCommands_sway_label(be, mode, orient, kbds, display, touchscreen, hn) ==
    IF be = "Sway"
    THEN <<SwayRotate(display, orient.new_state)>>
         \o (IF mode = "Integrated"
             THEN KeyboardCommands(kbds, integrated_keyboard_state(orient.new_state, hn))
             ELSE <<>>)
    ELSE <<XrandrRotate(display, orient.new_state),
           XinputMatrix(touchscreen, orient.matrix)>>

\* A Sway arm that switches the keyboards in every keyboard mode.
BackendCommands_any_mode(be, mode, orient, kbds, display, touchscreen, hn) ==
    IF be = "Sway"
    THEN <<SwayRotate(display, orient.new_state)>>
         \o KeyboardCommands(kbds, integrated_keyboard_state(orient.new_state, hn))
    ELSE <<XrandrRotate(display, orient.x_state),
           XinputMatrix(touchscreen, orient.matrix)>>

BackendCommands(be, mode, orient, kbds, display, touchscreen, hn) ==
    IF be = "Sway"
    THEN <<SwayRotate(display, orient.new_state)>>
         \o (IF mode = "Integrated"
             THEN KeyboardCommands(kbds, integrated_keyboard_state(orient.new_state, hn))
             ELSE <<>>)
    ELSE <<XrandrRotate(display, orient.x_state),
           XinputMatrix(touchscreen, orient.matrix)>>

HookCommands(rotate_hook) ==
    IF rotate_hook = None THEN <<>> ELSE <<HookCommand(rotate_hook[1])>>

\* An apply block that runs the hook before the backend's commands.
AppliedCommands_hook_first(be, mode, orient, kbds, display, touchscreen, hn, rotate_hook) ==
    HookCommands(rotate_hook)
    \o BackendCommands(be, mode, orient, kbds, display, touchscreen, hn)

\* the body of `if !noop`: the backend's commands, then the hook
AppliedCommands(be, mode, orient, kbds, display, touchscreen, hn, rotate_hook) ==
    BackendCommands(be, mode, orient, kbds, display, touchscreen, hn)
    \o HookCommands(rotate_hook)

\* old_state after the body of `if new_state != old_state`
RecordedState(old, new_state, suppressed) == new_state

\* what the rotate command of the backend leaves on the display
RotationLabel(be, orient) == IF be = "Sway" THEN orient.new_state ELSE orient.x_state

(***************************************************************************)
(* The inputs: what the environment may hand to the program.               *)
(***************************************************************************)
Display == "eDP-1"
Touchscreen == "ELAN0732:00 04F3:22E1"
KeyboardDevice == "kbd0"
Devices == {KeyboardDevice}

RawFiles ==
    {[readable |-> FALSE, parses |-> FALSE, val |-> 0],
     [readable |-> TRUE, parses |-> FALSE, val |-> 0]}
    \cup [readable : {TRUE}, parses : {TRUE}, val : -MaxRaw..MaxRaw]

ThresholdArgs ==
    {[parses |-> FALSE, val |-> 0]} \cup [parses : {TRUE}, val : -1..MaxThreshold]

ScaleFiles ==
    {[present |-> FALSE, parses |-> FALSE, val |-> 0],
     [present |-> TRUE, parses |-> FALSE, val |-> 0],
     [present |-> TRUE, parses |-> TRUE, val |-> 5],
     [present |-> TRUE, parses |-> TRUE, val |-> 10]}

KeyboardModeArgs == {"integrated", "detachable", "none", "tablet"}

OtherOutput == [name |-> "HDMI-A-1", transform |-> "normal"]
SwayReports ==
    {<<OtherOutput>>}
    \cup {<<OtherOutput, [name |-> Display, transform |-> t]>> :
            t \in {"normal", "90", "180", "270", "flipped-90"}}

OtherLine == [name |-> "HDMI-1", status |-> "disconnected", mid |-> <<>>, tail |-> FALSE]
DisplayLines ==
    [name : {Display}, status : {"connected"}, tail : {TRUE},
     mid : {<<"primary", "1920x1080+0+0">>,
            <<"primary", "1080x1920+0+0", "left">>,
            <<"primary", "1080x1920+0+0", "right">>,
            <<"primary", "1920x1080+0+0", "inverted">>,
            <<"1920x1080+0+0">>,
            <<"1080x1920+0+0", "right">>}]
XrandrReports == {<<OtherLine>>} \cup {<<OtherLine, l>> : l \in DisplayLines}

InputReports ==
    {<<[type |-> "keyboard", identifier |-> "1:1:AT_keyboard"],
       [type |-> "touch", identifier |-> "1267:8929:ELAN"],
       [type |-> "keyboard", identifier |-> "0:1:Power_Button"]>>}

\* The rotation the display really has when the program starts: the transform
\* Sway reports for it, or the rotation word xrandr prints on its line.
RECURSIVE XrandrShown(_, _)
XrandrShown(display, lines) ==
    IF lines = <<>> THEN "absent"
    ELSE IF Head(lines).name # display THEN XrandrShown(display, Tail(lines))
    ELSE LET mid == Head(lines).mid IN
         IF mid # <<>> /\ mid[Len(mid)] \in XrandrWords THEN mid[Len(mid)] ELSE "normal"

ShownRotation(be, display, outputs, lines) ==
    IF be = "Sway" THEN SwayTransformOf(display, outputs).val
    ELSE IF be = "Xorg" THEN XrandrShown(display, lines)
    ELSE "absent"

NoSample ==
    [x_clean |-> 0, y_clean |-> 0, scale |-> None, flip_y |-> FALSE,
     rotate_90 |-> FALSE, threshold |-> DefaultThreshold, cur |-> InitialOrient]

(***************************************************************************)
(* Initial states: the program has not run yet.                            *)
(***************************************************************************)
InitEnv(ProcSets, Modes, Thresholds, Scales, Flips, Hooks) ==
    /\ procs \in ProcSets
    /\ matches \in [display : {Display}, touchscreen : {Touchscreen},
                    threshold : Thresholds, keyboard_mode : Modes,
                    keyboard_device : {None, Some(KeyboardDevice)},
                    rotate_90 : BOOLEAN, flip_y : Flips, rotate_hook : Hooks]
    /\ sway_outputs \in (IF DetectBackend(procs) = "Sway" THEN SwayReports ELSE {<<>>})
    /\ xrandr_output \in (IF DetectBackend(procs) = "Xorg" THEN XrandrReports ELSE {<<>>})
    /\ sway_inputs \in (IF DetectBackend(procs) = "Sway" THEN InputReports ELSE {<<>>})
    /\ scale_file \in Scales
    /\ xinput_devices \in (IF "Xorg" \in procs THEN SUBSET Devices ELSE {{}})
    /\ pc = "start"
    /\ backend = "unset"
    /\ keyboard_mode = "unset"
    /\ keyboards = <<>>
    /\ scale = None
    /\ old_state = ""
    /\ current_orient = InitialOrient
    /\ display_state = ShownRotation(DetectBackend(procs), Display, sway_outputs, xrandr_output)
    /\ last_applied = ""
    /\ ran = FALSE
    /\ prev_state = ""
    /\ prev_orient = InitialOrient
    /\ matched = FALSE
    /\ attached = <<>>
    /\ issued = <<>>
    /\ sample = NoSample
    /\ classified = 0
    /\ apply_pc = "idle"
    /\ children = <<>>
    /\ tick = FALSE

Init ==
    InitEnv({{}, {"sway"}, {"Xorg"}, {"sway", "Xorg"}}, KeyboardModeArgs,
            {[parses |-> TRUE, val |-> DefaultThreshold]},
            {[present |-> FALSE, parses |-> FALSE, val |-> 0]},
            {FALSE}, {None, Some("notify-send rotated")})

(***************************************************************************)
(* Startup: main up to the loop.                                           *)
(***************************************************************************)
\* A match whose last arm falls back to KeyboardMode::None.
KeyboardModeOf_lenient(arg) ==
    IF arg = "integrated" THEN "Integrated"
    ELSE IF arg = "detachable" THEN "Detachable"
    ELSE "None"

KeyboardModeOf(arg) ==
    IF arg = "integrated" THEN "Integrated"
    ELSE IF arg = "detachable" THEN "Detachable"
    ELSE IF arg = "none" THEN "None"
    ELSE "panic"

Startup ==
    /\ pc = "start"
    /\ LET be == DetectBackend(procs)
           rot == get_window_server_rotation_state(matches.display, be,
                                                   sway_outputs, xrandr_output)
           mode == KeyboardModeOf(matches.keyboard_mode)
       IN IF be = "none" \/ ~rot.ok
          THEN /\ pc' = "error"
               /\ UNCHANGED <<backend, keyboard_mode, keyboards, scale, old_state,
                              last_applied>>
          ELSE IF mode = "panic"
          THEN /\ pc' = "panic"
               /\ UNCHANGED <<backend, keyboard_mode, keyboards, scale, old_state,
                              last_applied>>
          ELSE /\ pc' = "loop"
               /\ backend' = be
               /\ old_state' = rot.val
               /\ last_applied' = rot.val
               /\ keyboard_mode' = mode
               /\ keyboards' = IF matches.keyboard_device # None
                               THEN <<matches.keyboard_device[1]>>
                               ELSE get_keyboards(be, sway_inputs)
               /\ scale' = get_scale(scale_file)
    /\ UNCHANGED <<env_vars, xinput_devices, current_orient, display_state, ran,
                   prev_state, prev_orient, matched, attached, issued, sample,
                   classified, apply_pc, children, tick>>

(***************************************************************************)
(* One iteration of the loop, from the two reads to the sleep.             *)
(***************************************************************************)
Iteration(x_file, y_file) ==
    /\ pc = "loop"
    /\ IF ~(x_file.readable /\ y_file.readable)
       THEN /\ pc' = "panic"
            /\ UNCHANGED <<old_state, current_orient, display_state, last_applied,
                           ran, prev_state, prev_orient, matched, attached, issued>>
       ELSE LET hn == human_normal(matches.rotate_90)
                v == NormalizedVector(parse_i32(x_file), parse_i32(y_file), scale,
                                      matches.flip_y, matches.rotate_90)
                cand == Classify(v, parse_threshold(matches.threshold), current_orient)
                orient == orientations[cand]
                changed == StateChanged(orient.new_state, old_state)
                probe == keyboards_attached(backend, keyboards, xinput_devices)
                suppressed == noop(keyboard_mode, probe, old_state, orient.new_state, hn)
                applied == changed /\ ~suppressed
            IN /\ pc' = "loop"
               /\ current_orient' = cand
               /\ old_state' = IF changed
                               THEN RecordedState(old_state, orient.new_state, suppressed)
                               ELSE old_state
               /\ attached' = IF changed /\ keyboard_mode = "Detachable"
                              THEN <<probe>> ELSE <<>>
               /\ issued' = IF applied
                            THEN AppliedCommands(backend, keyboard_mode, orient, keyboards,
                                                 matches.display, matches.touchscreen, hn,
                                                 matches.rotate_hook)
                            ELSE <<>>
               /\ display_state' = IF applied THEN RotationLabel(backend, orient)
                                   ELSE display_state
               /\ last_applied' = IF applied THEN orient.new_state ELSE last_applied
               /\ ran' = TRUE
               /\ prev_state' = old_state
               /\ prev_orient' = current_orient
               /\ matched' = AnyQualifies(v, parse_threshold(matches.threshold))
    /\ UNCHANGED <<env_vars, xinput_devices, backend, keyboard_mode, keyboards, scale,
                   sample, classified, apply_pc, children>>

Iterate(x_file, y_file) == Iteration(x_file, y_file) /\ UNCHANGED tick

Poll == \E x_file \in RawFiles, y_file \in RawFiles : Iterate(x_file, y_file)

(***************************************************************************)
(* The environment: an input device is plugged in or removed.  xinput     *)
(* lists the devices of an X server, so there are none without one.        *)
(***************************************************************************)
PlugDevice ==
    /\ "Xorg" \in procs
    /\ \E d \in Devices :
         xinput_devices' = IF d \in xinput_devices
                           THEN xinput_devices \ {d} ELSE xinput_devices \cup {d}
    /\ UNCHANGED <<env_vars, pc, backend, keyboard_mode, keyboards, scale, old_state,
                   current_orient, display_state, last_applied, ran, prev_state,
                   prev_orient, matched, attached, issued, sample, classified,
                   apply_pc, children, tick>>

Next == Startup \/ Poll \/ PlugDevice

Spec == Init /\ [][Next]_vars

(***************************************************************************)
(* The classifier taken alone (lines 341-378 of the loop): the inputs are  *)
(* drawn from every raw count, scale, hack flag, threshold and previously  *)
(* active orientation of the bounds, and one step classifies them.         *)
(***************************************************************************)
Samples ==
    [x_clean : -MaxSampleRaw..MaxSampleRaw, y_clean : -MaxSampleRaw..MaxSampleRaw,
     scale : {get_scale(f) : f \in ScaleFiles},
     flip_y : BOOLEAN, rotate_90 : BOOLEAN,
     threshold : {parse_threshold(a) : a \in ThresholdArgs},
     cur : 1..NumOrientations]

SampleVector(s) == NormalizedVector(s.x_clean, s.y_clean, s.scale, s.flip_y, s.rotate_90)

InitClassify ==
    /\ sample \in Samples
    /\ classified = 0
    /\ apply_pc = "idle"
    /\ children = <<>>
    /\ tick = FALSE
    /\ pc = "classify"
    /\ procs = {}
    /\ matches = [display |-> Display, touchscreen |-> Touchscreen,
                  threshold |-> [parses |-> TRUE, val |-> DefaultThreshold],
                  keyboard_mode |-> "none", keyboard_device |-> None,
                  rotate_90 |-> FALSE, flip_y |-> FALSE, rotate_hook |-> None]
    /\ sway_outputs = <<>>
    /\ xrandr_output = <<>>
    /\ sway_inputs = <<>>
    /\ scale_file = [present |-> FALSE, parses |-> FALSE, val |-> 0]
    /\ xinput_devices = {}
    /\ backend = "unset"
    /\ keyboard_mode = "unset"
    /\ keyboards = <<>>
    /\ scale = None
    /\ old_state = ""
    /\ current_orient = InitialOrient
    /\ display_state = "absent"
    /\ last_applied = ""
    /\ ran = FALSE
    /\ prev_state = ""
    /\ prev_orient = InitialOrient
    /\ matched = FALSE
    /\ attached = <<>>
    /\ issued = <<>>

ClassifyStep ==
    /\ pc = "classify"
    /\ pc' = "classified"
    /\ classified' = Classify(SampleVector(sample), sample.threshold, sample.cur)
    /\ UNCHANGED <<env_vars, xinput_devices, backend, keyboard_mode, keyboards, scale,
                   old_state, current_orient, display_state, last_applied, ran,
                   prev_state, prev_orient, matched, attached, issued, sample,
                   apply_pc, children, tick>>

NextClassify == ClassifyStep

SpecClassify == InitClassify /\ [][NextClassify]_vars

(***************************************************************************)
(* The record of the latest iteration, read back.                          *)
(***************************************************************************)
Candidate == orientations[current_orient].new_state
HumanNormal == human_normal(matches.rotate_90)
HumanNormalOrient == CHOOSE i \in 1..NumOrientations : orientations[i].new_state = HumanNormal
CandidateDiffers == ran /\ Candidate # prev_state
RotateIssued == issued # <<>>
PolicySuppresses ==
    /\ keyboard_mode = "Detachable"
    /\ attached = <<TRUE>>
    /\ (prev_state = HumanNormal \/ Candidate # HumanNormal)

(***************************************************************************)
(* C1.  In every state of the main loop the recorded old_state is the      *)
(* orientation most recently applied to the backend by a rotate command,   *)
(* or the rotation reported at startup when none has been issued.          *)
(* The loop assigns old_state = new_state after a suppressed rotation as   *)
(* well, so this fails.                                                    *)
(***************************************************************************)
C1_OldStateIsLastApplied == pc = "loop" => old_state = last_applied

(***************************************************************************)
(* C2.  An iteration whose candidate differs from old_state and which the  *)
(* keyboard policy suppresses issues no command and leaves old_state as it *)
(* was.  The loop records the candidate all the same, so this fails.       *)
(***************************************************************************)
C2_SuppressedIterationKeepsState ==
    (CandidateDiffers /\ PolicySuppresses) => (issued = <<>> /\ old_state = prev_state)

(***************************************************************************)
(* C3.  An iteration whose candidate equals old_state issues no command    *)
(* (rotate, keyboard, touch matrix, hook), does not invoke the attachment  *)
(* probe and leaves old_state unchanged.                                   *)
(***************************************************************************)
C3_EqualCandidateDoesNothing ==
    (ran /\ Candidate = prev_state) =>
        (issued = <<>> /\ attached = <<>> /\ old_state = prev_state)

C3_Witness ==
    /\ ran /\ Candidate = prev_state
    /\ backend = "Xorg" /\ keyboard_mode = "Detachable"
    /\ keyboards_attached(backend, keyboards, xinput_devices)
    /\ matches.rotate_hook # None
    /\ Candidate # HumanNormal

(***************************************************************************)
(* C4.  In Detachable mode an iteration whose candidate differs from       *)
(* old_state is suppressed (issues no rotate command) exactly when the     *)
(* probe reports a keyboard attached and (old == human_normal or           *)
(* new != human_normal).  With human_normal = normal and a keyboard        *)
(* attached: normal -> 90 is suppressed, 90 -> normal is not.              *)
(***************************************************************************)
C4_DetachableSuppression ==
    (keyboard_mode = "Detachable" /\ CandidateDiffers) =>
        /\ ~RotateIssued <=>
              (attached = <<TRUE>> /\ (prev_state = HumanNormal \/ Candidate # HumanNormal))
        /\ (attached = <<TRUE>> /\ HumanNormal = "normal"
              /\ prev_state = "normal" /\ Candidate = "90") => ~RotateIssued
        /\ (attached = <<TRUE>> /\ HumanNormal = "normal"
              /\ prev_state = "90" /\ Candidate = "normal") => RotateIssued

C4_Witness ==
    /\ keyboard_mode = "Detachable" /\ CandidateDiffers
    /\ attached = <<TRUE>> /\ HumanNormal = "normal"
    /\ prev_state = "90" /\ Candidate = "normal" /\ RotateIssued

(***************************************************************************)
(* C5.  Detachable mode on Xorg: a rotate command issued in an iteration   *)
(* whose probe reported a keyboard attached targets human_normal, and a    *)
(* display that is at human_normal is not rotated away from it by any step *)
(* taken while a keyboard is attached.                                     *)
(***************************************************************************)
C5_LockedAtHumanNormal ==
    /\ [](( backend = "Xorg" /\ keyboard_mode = "Detachable" /\ ran
            /\ attached = <<TRUE>> /\ RotateIssued ) =>
          issued[1] = XrandrRotate(matches.display,
                                   orientations[HumanNormalOrient].x_state))
    /\ [][( backend = "Xorg" /\ keyboard_mode = "Detachable"
            /\ display_state = orientations[HumanNormalOrient].x_state
            /\ keyboards_attached(backend, keyboards, xinput_devices) ) =>
          display_state' = display_state]_vars

C5_Witness ==
    /\ backend = "Xorg" /\ keyboard_mode = "Detachable" /\ ran
    /\ attached = <<TRUE>> /\ RotateIssued
    /\ matches.rotate_90
    /\ display_state = orientations[HumanNormalOrient].x_state
    /\ prev_state = "180"

(***************************************************************************)
(* The classifier's record, read back.                                     *)
(***************************************************************************)
SampleDistance(i) == Distance(SampleVector(sample), orientations[i])
InBall == {i \in 1..NumOrientations : SampleDistance(i) < sample.threshold}
IsReferenceSample(i) ==
    /\ sample.scale = None /\ ~sample.flip_y /\ ~sample.rotate_90
    /\ <<sample.x_clean, sample.y_clean>> = orientations[i].vector

(***************************************************************************)
(* C6.  When at least one reference is at a squared distance strictly      *)
(* below the threshold, the classifier returns the first such reference in *)
(* the order Normal (0,-1), Inverted (0,1), RotatedLeft (-1,0),            *)
(* RotatedRight (1,0): an earlier reference wins over a later one that is  *)
(* nearer, and a distance equal to the threshold does not qualify.         *)
(***************************************************************************)
C6_FirstMatchWins ==
    /\ orientations[1].vector = <<0, -1>> /\ orientations[1].new_state = "normal"
    /\ orientations[2].vector = <<0, 1>> /\ orientations[2].new_state = "180"
    /\ orientations[3].vector = <<-1, 0>> /\ orientations[3].new_state = "90"
    /\ orientations[4].vector = <<1, 0>> /\ orientations[4].new_state = "270"
    /\ (pc = "classified" /\ InBall # {}) =>
          /\ classified \in InBall
          /\ \A j \in InBall : classified <= j

C6_Witness ==
    /\ pc = "classified"
    /\ {1, 4} \subseteq InBall
    /\ SampleDistance(4) < SampleDistance(1)
    /\ SampleDistance(3) = sample.threshold
    /\ classified = 1

(***************************************************************************)
(* C7.  In every iteration, the first one included, when no reference      *)
(* qualifies the candidate is the previously active orientation (at first  *)
(* the one the backend reported), so no rotation is applied.  The loop     *)
(* starts from orientations[0], so a first sample that matches nothing     *)
(* yields the candidate "normal" and this fails.                           *)
(***************************************************************************)
C7_NoMatchKeepsOrientation ==
    (ran /\ ~matched) => (Candidate = prev_state /\ issued = <<>>)

(***************************************************************************)
(* C8.  As claimed: a reference vector given as the sample, with no scale  *)
(* and no hack, classifies to its own orientation for every threshold      *)
(* >= 0, whatever the previous orientation.  Fails at threshold 0 and      *)
(* above 2.                                                                *)
(***************************************************************************)
C8_RoundTripAnyThreshold ==
    \A i \in 1..NumOrientations :
        (pc = "classified" /\ IsReferenceSample(i) /\ sample.threshold >= 0) =>
            classified = i

(***************************************************************************)
(* C8, amended.  The same for every threshold t with 0 < t <= 2 (8         *)
(* quarters).                                                              *)
(***************************************************************************)
C8_RoundTrip ==
    \A i \in 1..NumOrientations :
        (pc = "classified" /\ IsReferenceSample(i)
           /\ 0 < sample.threshold /\ sample.threshold <= 8) =>
            classified = i

C8_Witness ==
    /\ pc = "classified" /\ IsReferenceSample(4)
    /\ sample.threshold = 8 /\ sample.cur = 2 /\ classified = 4

(***************************************************************************)
(* The Xorg apply step, read back.                                         *)
(***************************************************************************)
XorgApplied == backend = "Xorg" /\ ran /\ RotateIssued
LeftMatrix == <<"0", "1", "0", "-1", "0", "1", "0", "0", "1">>
ReportedWithoutWord ==
    \E n \in 1..Len(xrandr_output) :
        /\ xrandr_output[n].name = Display
        /\ xrandr_is_match(Display, xrandr_output[n])
        /\ \A k \in 1..Len(xrandr_output[n].mid) : xrandr_output[n].mid[k] \notin XrandrWords

C10_IntegratedKeyboards ==
    (backend = "Sway" /\ keyboard_mode = "Integrated" /\ CandidateDiffers) =>
        LET hn == IF matches.rotate_90 THEN "90" ELSE "normal"
            token == IF display_state = hn THEN "enabled" ELSE "disabled"
            hooks == IF matches.rotate_hook = None THEN 0 ELSE 1
        IN /\ RotateIssued
           /\ display_state = Candidate
           /\ issued[1] = <<"swaymsg", "output", Display, "transform", Candidate>>
           /\ Len(issued) = 1 + Len(keyboards) + hooks
           /\ \A k \in 1..Len(keyboards) :
                 issued[1 + k] = <<"swaymsg", "input", keyboards[k], "events", token>>

C10_Witness ==
    /\ backend = "Sway" /\ keyboard_mode = "Integrated" /\ CandidateDiffers
    /\ Len(keyboards) = 2 /\ matches.rotate_90
    /\ display_state = "90" /\ prev_state = "normal"
    /\ issued[3][5] = "enabled"

(***************************************************************************)
(* C11.  As claimed: in any poll cycle a sample file that is unreadable or *)
(* does not parse as an integer counts as 0 and the cycle completes: the   *)
(* step taken with such files is the step taken with files reading "0",    *)
(* and the loop goes on.  An unparsable file does behave so, but           *)
(* fs::read_to_string(..).unwrap() aborts the process on an unreadable     *)
(* one.                                                                    *)
(***************************************************************************)
ZeroFile == [readable |-> TRUE, parses |-> TRUE, val |-> 0]
Degraded(file) == IF file.readable /\ file.parses THEN file ELSE ZeroFile

C11_BadSampleReadsAsZero ==
    [][\A x_file \in RawFiles, y_file \in RawFiles :
          Iterate(x_file, y_file) =>
              (pc' = "loop" /\ Iterate(Degraded(x_file), Degraded(y_file)))]_vars

(***************************************************************************)
(* C12.  When no backend process is found, or the configured display is    *)
(* absent from the backend's report, or the keyboard-mode flag is not one  *)
(* of integrated, detachable, none, the program ends in an error state     *)
(* (main returns Err, or panics), never enters the loop and issues no      *)
(* command.                                                                *)
(***************************************************************************)
NoBackend == DetectBackend(procs) = "none"
DisplayAbsent ==
    IF DetectBackend(procs) = "Sway"
    THEN \A n \in 1..Len(sway_outputs) : sway_outputs[n].name # matches.display
    ELSE \A n \in 1..Len(xrandr_output) : xrandr_output[n].name # matches.display
BadKeyboardMode == matches.keyboard_mode \notin {"integrated", "detachable", "none"}

C12_StartupErrors ==
    (NoBackend \/ DisplayAbsent \/ BadKeyboardMode) =>
        /\ pc \in {"start", "error", "panic"}
        /\ ~ran
        /\ issued = <<>>
        /\ display_state = ShownRotation(DetectBackend(procs), Display,
                                         sway_outputs, xrandr_output)

C12_Witness ==
    /\ pc = "panic" /\ BadKeyboardMode /\ ~NoBackend /\ ~DisplayAbsent

(***************************************************************************)
(* C13.  With a rotate hook configured, every applied rotation runs the    *)
(* hook exactly once, after the rotation's backend commands, and an        *)
(* iteration whose candidate equals old_state, or whose rotation is        *)
(* suppressed, does not run it.                                            *)
(***************************************************************************)
HookPositions == {k \in 1..Len(issued) : issued[k][1] = "/bin/sh"}
RotatePositions ==
    {k \in 1..Len(issued) :
        \/ issued[k][1] = "xrandr"
        \/ issued[k][1] = "swaymsg" /\ issued[k][2] = "output"}

C13_HookOncePerRotation ==
    (matches.rotate_hook # None /\ ran) =>
        /\ Cardinality(HookPositions) = Cardinality(RotatePositions)
        /\ (CandidateDiffers /\ ~PolicySuppresses) =>
              /\ RotatePositions = {1}
              /\ HookPositions = {Len(issued)}
              /\ Len(issued) >= 2
              /\ issued[Len(issued)] = <<"/bin/sh", "-c", matches.rotate_hook[1]>>
        /\ (Candidate = prev_state \/ PolicySuppresses) => HookPositions = {}

C13_Witness ==
    /\ matches.rotate_hook # None /\ ran
    /\ backend = "Sway" /\ keyboard_mode = "Integrated"
    /\ Len(keyboards) = 2
    /\ HookPositions = {4}

(***************************************************************************)
(* C14.  Classification with the mounting hacks is classification without  *)
(* them of the transformed sample: flip_y negates Y only, rotate_90 then   *)
(* maps (x, y) to (y, -x), before the distance test.  The normalized       *)
(* vector (0,-1) under rotate_90 classifies as the orientation whose       *)
(* reference is (-1,0) (for a threshold in (0, 2], where a reference       *)
(* classifies as itself).                                                  *)
(***************************************************************************)
C14_HacksTransformTheSample ==
    pc = "classified" =>
        LET yf == IF sample.flip_y THEN -sample.y_clean ELSE sample.y_clean
            x2 == IF sample.rotate_90 THEN yf ELSE sample.x_clean
            y2 == IF sample.rotate_90 THEN -sample.x_clean ELSE yf
        IN /\ classified =
                Classify(NormalizedVector(x2, y2, sample.scale, FALSE, FALSE),
                         sample.threshold, sample.cur)
           /\ (sample.rotate_90 /\ Normalize(sample.x_clean, yf, sample.scale) = <<0, -2>>
                 /\ 0 < sample.threshold /\ sample.threshold <= 8) =>
                 orientations[classified].vector = <<-1, 0>>

C14_Witness ==
    /\ pc = "classified"
    /\ sample.rotate_90 /\ sample.flip_y /\ sample.scale = None
    /\ sample.x_clean = 0 /\ sample.y_clean = 1
    /\ sample.threshold = DefaultThreshold /\ sample.cur = 1
    /\ classified = 3

(***************************************************************************)
(* C15.  As claimed: on either backend, when the startup report shows the  *)
(* display already rotated to an orientation o (the Sway transform label,  *)
(* or the rotation word parsed from the xrandr line) and the first sample  *)
(* classifies to o, the first iteration finds the candidate equal to       *)
(* old_state and issues no rotate command.  On Xorg old_state holds the    *)
(* captured word with its trailing blank ("right "), which is compared     *)
(* with the Sway label of the candidate ("90"): they differ for every      *)
(* rotation other than normal.                                             *)
(***************************************************************************)
StartupReport ==
    get_window_server_rotation_state(matches.display, DetectBackend(procs),
                                     sway_outputs, xrandr_output)
ReportedAs(o) ==
    \/ backend = "Sway" /\ StartupReport.val = orientations[o].new_state
    \/ backend = "Xorg" /\ StartupReport.val \in
          {orientations[o].x_state, orientations[o].x_state \o " "}
FirstIteration == ran /\ prev_orient = InitialOrient /\ prev_state = StartupReport.val

C15_NoRotationWhenAlreadyThere ==
    \A o \in 1..NumOrientations :
        (FirstIteration /\ ReportedAs(o) /\ current_orient = o) =>
            (Candidate = prev_state /\ RotatePositions = {})

(***************************************************************************)
(* C17.  A keyboard enable/disable command is issued only in Integrated    *)
(* mode on Sway: none in mode None or Detachable, none on Xorg in any      *)
(* mode.  In mode None a candidate that differs from old_state is never    *)
(* suppressed: the rotate command is issued and the display shows it.      *)
(***************************************************************************)
KeyboardPositions ==
    {k \in 1..Len(issued) : issued[k][1] = "swaymsg" /\ issued[k][2] = "input"}

C17_KeyboardCommandsOnlyIntegratedSway ==
    /\ KeyboardPositions # {} => (backend = "Sway" /\ keyboard_mode = "Integrated")
    /\ (keyboard_mode = "None" /\ CandidateDiffers) =>
           /\ RotatePositions # {}
           /\ display_state = RotationLabel(backend, orientations[current_orient])

C17_Witness ==
    /\ backend = "Sway" /\ keyboard_mode = "None" /\ keyboards # <<>>
    /\ CandidateDiffers /\ RotatePositions # {} /\ KeyboardPositions = {}

(***************************************************************************)
(* C18.  keyboards_attached is false on Sway for every keyboard list; on   *)
(* Xorg it is true exactly when at least one keyboard of the list answers  *)
(* `xinput list` (false for the empty list).  Every iteration that finds   *)
(* a new candidate in Detachable mode records that answer; on Sway such    *)
(* an iteration is never suppressed: the rotate command is issued and the  *)
(* display shows the candidate.                                            *)
(***************************************************************************)
MaxKeyboards == 2
KeyboardIds == {"kbd0", "kbd1"}
KeyboardLists == UNION {[1..n -> KeyboardIds] : n \in 0..MaxKeyboards}
SomeResponds(kbds, devices) == \E i \in 1..Len(kbds) : kbds[i] \in devices

C18_AttachmentProbe ==
    /\ [](\A kbds \in KeyboardLists, devices \in SUBSET KeyboardIds :
             /\ keyboards_attached("Sway", kbds, devices) = FALSE
             /\ keyboards_attached("Xorg", kbds, devices) = SomeResponds(kbds, devices))
    /\ []((backend = "Sway" /\ keyboard_mode = "Detachable" /\ CandidateDiffers) =>
             (attached = <<FALSE>> /\ RotatePositions # {} /\ display_state = Candidate))
    /\ [][(Poll /\ pc' = "loop" /\ keyboard_mode = "Detachable" /\ Candidate' # old_state) =>
             attached' = <<backend = "Xorg" /\ SomeResponds(keyboards, xinput_devices)>>]_vars

C18_Witness ==
    /\ backend = "Sway" /\ keyboard_mode = "Detachable"
    /\ SomeResponds(keyboards, xinput_devices)
    /\ CandidateDiffers /\ prev_state = HumanNormal
    /\ attached = <<FALSE>> /\ RotatePositions # {}

(***************************************************************************)
(* The loop observed round by round.  `loop { ...; thread::sleep(..) }`    *)
(* (lines 338-465) has no exit other than a panic, so while the process    *)
(* lives another round always comes: weak fairness of a round.  tick tells *)
(* two successive rounds apart even when the second one changes nothing.   *)
(***************************************************************************)
Round(x_file, y_file) == Iteration(x_file, y_file) /\ tick' = ~tick

PollLive == \E x_file \in RawFiles, y_file \in RawFiles : Round(x_file, y_file)

NextLive == Startup \/ PollLive \/ PlugDevice

SpecLive == Init /\ [][NextLive]_vars /\ WF_vars(PollLive)

(***************************************************************************)
(* C19.  As claimed: if from some round on the loop keeps running, no      *)
(* keyboard answers the attachment probe and every sample matches the      *)
(* reference of one orientation o, then eventually the display is rotated  *)
(* to o and stays there, in every keyboard mode.  A rotation toward o that *)
(* was suppressed while a keyboard was attached has already stored o in    *)
(* old_state, so once the keyboard is gone the candidate o never differs   *)
(* from old_state again and no rotate command is ever issued.  The runs    *)
(* looked at are those whose startup read the display's rotation as it     *)
(* really was, so that nothing but the loop is in question.                *)
(***************************************************************************)
StartupFaithful ==
    /\ pc = "start"
    /\ \E o \in 1..NumOrientations :
          /\ display_state = RotationLabel(DetectBackend(procs), orientations[o])
          /\ \/ DetectBackend(procs) = "Sway"
                   /\ StartupReport.val = orientations[o].new_state
             \/ DetectBackend(procs) = "Xorg"
                   /\ StartupReport.val \in
                         {orientations[o].x_state, orientations[o].x_state \o " "}

SettledOn(o) ==
    /\ pc = "loop" /\ ran /\ matched /\ current_orient = o
    /\ ~keyboards_attached(backend, keyboards, xinput_devices)

C19_EventuallyRotated ==
    \A o \in 1..NumOrientations :
        (StartupFaithful /\ <>[]SettledOn(o)) => <>[](display_state = RotationLabel(backend, orientations[o]))

(***************************************************************************)
(* The apply block taken alone (lines 401-462): the body of `if !noop`     *)
(* and the assignment that follows it, one step per spawn, per wait and    *)
(* for the assignment.  Every command is run as                            *)
(* `Command::new(..).spawn().expect(..).wait().expect(..)`: the child is   *)
(* started, then the program blocks until it has exited.  When a child     *)
(* exits is up to the child.  The block is entered with a candidate that   *)
(* differs from old_state and was not suppressed.                          *)
(***************************************************************************)
ApplyCommands ==
    AppliedCommands(backend, keyboard_mode, orientations[current_orient], keyboards,
                    matches.display, matches.touchscreen,
                    human_normal(matches.rotate_90), matches.rotate_hook)

\* A wait that returns whether or not the child has exited.
WaitReturns_at_once(status) == TRUE

\* Child::wait returns once the child has exited
WaitReturns(status) == status = "exited"

InitApply ==
    /\ backend \in {"Sway", "Xorg"}
    /\ keyboard_mode \in {"None", "Integrated", "Detachable"}
    /\ keyboards \in KeyboardLists
    /\ current_orient \in 1..NumOrientations
    /\ old_state \in {orientations[i].new_state : i \in 1..NumOrientations}
    /\ old_state # orientations[current_orient].new_state
    /\ matches \in [display : {Display}, touchscreen : {Touchscreen},
                    threshold : {[parses |-> TRUE, val |-> DefaultThreshold]},
                    keyboard_mode : {"none"}, keyboard_device : {None},
                    rotate_90 : BOOLEAN, flip_y : {FALSE},
                    rotate_hook : {None, Some("notify-send rotated")}]
    /\ pc = "apply"
    /\ apply_pc = "spawn"
    /\ children = <<>>
    /\ procs = {}
    /\ sway_outputs = <<>>
    /\ xrandr_output = <<>>
    /\ sway_inputs = <<>>
    /\ scale_file = [present |-> FALSE, parses |-> FALSE, val |-> 0]
    /\ xinput_devices = {}
    /\ scale = None
    /\ display_state = "absent"
    /\ last_applied = ""
    /\ ran = FALSE
    /\ prev_state = ""
    /\ prev_orient = InitialOrient
    /\ matched = FALSE
    /\ attached = <<>>
    /\ issued = <<>>
    /\ sample = NoSample
    /\ classified = 0
    /\ tick = FALSE

fixed_vars ==
    <<env_vars, xinput_devices, pc, backend, keyboard_mode, keyboards, scale,
      current_orient, display_state, last_applied, ran, prev_state, prev_orient,
      matched, attached, issued, sample, classified, tick>>

\* `.spawn()`: the next command of the block is started
Spawn ==
    /\ pc = "apply" /\ apply_pc = "spawn"
    /\ children' = Append(children, [argv |-> ApplyCommands[Len(children) + 1],
                                     status |-> "running"])
    /\ apply_pc' = "wait"
    /\ UNCHANGED <<fixed_vars, old_state>>

\* a running child exits (successfully)
ChildExit ==
    /\ pc = "apply"
    /\ \E k \in 1..Len(children) :
         /\ children[k].status = "running"
         /\ children' = [children EXCEPT ![k].status = "exited"]
    /\ UNCHANGED <<fixed_vars, old_state, apply_pc>>

\* `.wait()` on the child just spawned
Wait ==
    /\ pc = "apply" /\ apply_pc = "wait"
    /\ WaitReturns(children[Len(children)].status)
    /\ children' = [children EXCEPT ![Len(children)].status =
                        IF @ = "exited" THEN "reaped" ELSE @]
    /\ apply_pc' = IF Len(children) = Len(ApplyCommands) THEN "record" ELSE "spawn"
    /\ UNCHANGED <<fixed_vars, old_state>>

\* `old_state = new_state` (line 462)
Record ==
    /\ pc = "apply" /\ apply_pc = "record"
    /\ old_state' = orientations[current_orient].new_state
    /\ apply_pc' = "done"
    /\ UNCHANGED <<fixed_vars, children>>

NextApply == Spawn \/ ChildExit \/ Wait \/ Record

SpecApply == InitApply /\ [][NextApply]_vars

(***************************************************************************)
(* C16.  Within one applied rotation the commands run strictly one after   *)
(* the other, each waited for before the next is started: first the        *)
(* rotate command; then, on Sway in Integrated mode, one keyboard command  *)
(* per keyboard in the order of the keyboard list, or, on Xorg, the touch  *)
(* matrix command; then the hook if one is configured.  old_state becomes  *)
(* the candidate only after all of them have completed, and never are two  *)
(* children running at once.                                               *)
(***************************************************************************)
BackendFollowUps ==
    IF backend = "Sway"
    THEN (IF keyboard_mode = "Integrated" THEN Len(keyboards) ELSE 0)
    ELSE 1
ExpectedChildren ==
    1 + BackendFollowUps + (IF matches.rotate_hook = None THEN 0 ELSE 1)
Running == {k \in 1..Len(children) : children[k].status = "running"}

C16_OneCommandAtATime ==
    pc = "apply" =>
        /\ Cardinality(Running) <= 1
        /\ \A k \in 1..(Len(children) - 1) : children[k].status = "reaped"
        /\ Len(children) <= ExpectedChildren
        /\ \A k \in 1..Len(children) :
             LET argv == children[k].argv IN
             IF k = 1
             THEN \/ backend = "Sway"
                      /\ argv = <<"swaymsg", "output", matches.display, "transform",
                                  orientations[current_orient].new_state>>
                  \/ backend = "Xorg"
                      /\ argv = <<"xrandr", "--output", matches.display, "--rotate",
                                  orientations[current_orient].x_state>>
             ELSE IF k <= 1 + BackendFollowUps
             THEN \/ backend = "Sway"
                      /\ argv[1] = "swaymsg" /\ argv[2] = "input"
                      /\ argv[3] = keyboards[k - 1]
                  \/ backend = "Xorg"
                      /\ argv[1] = "xinput" /\ argv[3] = matches.touchscreen
             ELSE /\ matches.rotate_hook # None
                  /\ k = ExpectedChildren
                  /\ argv = <<"/bin/sh", "-c", matches.rotate_hook[1]>>
        /\ (old_state = orientations[current_orient].new_state) = (apply_pc = "done")
        /\ apply_pc \in {"record", "done"} =>
             /\ Len(children) = ExpectedChildren
             /\ \A k \in 1..Len(children) : children[k].status = "reaped"

C16_Witness ==
    /\ pc = "apply" /\ apply_pc = "done"
    /\ backend = "Sway" /\ keyboard_mode = "Integrated" /\ Len(keyboards) = 2
    /\ matches.rotate_hook # None /\ Len(children) = 4
    /\ old_state = orientations[current_orient].new_state

====
